---- MODULE Spec2Model ----
(***************************************************************************)
(* A model of the GoPro recording plugin (GoProPlugin/GoProRecordingPlugin *)
(* .py): EDMOPythonPlugin's construction (discovery, connection, defensive *)
(* stop, pre-session inventory), sessionStarted, sessionEnded, and the     *)
(* retry helper attemptAsync with its caller downloadFrom.                 *)
(*                                                                         *)
(* Strings that the code takes apart (advertised service names) are        *)
(* sequences of one-character strings; filenames are numbers (the n-th     *)
(* file a camera created).                                                 *)
(***************************************************************************)
EXTENDS Integers, Sequences, FiniteSets, TLC

\* ---------------------------------------------------------------- bounds
\* advertisements the listener receives during one discovery
MaxAds == 2
\* host calls (sessionStarted / sessionEnded) after construction
MaxCalls == 2
\* files deleted on the cameras by their operator
MaxDeletes == 1
\* largest `attempts` argument tried for attemptAsync
MaxAttempts == 3
\* longest inventory drawn for the diff on its own
MaxInv == 2

\* ------------------------------------------------------- program constants
\* asyncio.wait_for(listener.urls.get(), 2)
Timeout == 2
\* attemptAsync(function, attempts: int = 3)
DefaultAttempts == 3
\* the filenames inventories are drawn from for the diff on its own
Filenames == 1..3

\* ------------------------------------------------------------------ data
\* names the mDNS listener may put on its queue: <identifier>.<rest>
RawNames == { <<"a", ".", "t">>, <<"b", ".", "t">>, <<"a", ".", "u">> }

RECURSIVE Split0(_)
\* name.split('.')[0]: the characters before the first '.'
Split0(name) ==
    IF name = <<>> \/ Head(name) = "." THEN <<>>
    ELSE <<Head(name)>> \o Split0(Tail(name))

\* the cameras on the network, by identifier
Devices == { Split0(r) : r \in RawNames }

Range(s) == { s[k] : k \in DOMAIN s }

VARIABLES
    pc,                 \* where the host's (main) thread is
    calls,              \* host calls made after construction
    hostErrors,         \* exceptions that reached the host
    started,            \* sessionStarted calls that returned normally
    ended,              \* sessionEnded calls that returned normally
    urls,               \* listener.urls: the queue of advertised names
    names,              \* getAllConnectedDevices: names
    waited,             \* seconds the current wait_for has waited
    ads,                \* advertisements received so far
    sinceNew,           \* seconds since discovery began or an unseen identifier arrived
    gopros,             \* self.gopros: the identifiers of the handles, in order
    ci,                 \* index of the for loop in progress (initGoPro: connectedDevices; endSession: the handles to close)
    cstep,              \* initGoPro: the next call of the loop body
    dev,                \* the cameras: recording flag, media, next file number, turbo mode
    deletes,            \* files deleted on the cameras so far
    thr,                \* per fan-out task: what its worker thread has done
    tsk,                \* per fan-out task: the asyncio task's state
    listAcc,            \* the inventory comprehension being built
    existingVideoList,  \* self.existingVideoList: None (not assigned) or the list
    newVideoList,       \* endSession: newVideoList
    distinctVideoList,  \* endSession: distinctVideoList
    manifest,           \* recordedFiles.txt: whether it exists, and its sections
    closed,             \* indexes of self.gopros whose close() returned
    attempts,           \* attemptAsync: attempts
    given,              \* attemptAsync: the attempts argument it was called with
    function,           \* attemptAsync: the delegate, as the outcome of its n-th call
    fnCalls,            \* attemptAsync: outcomes of the calls of function so far
    ret,                \* attemptAsync: "running", or the value returned
    dl                  \* downloadFrom: position, turbo commands and downloads made

vars == << pc, calls, hostErrors, started, ended, urls, names, waited, ads,
           sinceNew, gopros, ci, cstep, dev, deletes, thr, tsk, listAcc,
           existingVideoList, newVideoList, distinctVideoList, manifest,
           closed, attempts, given, function, fnCalls, ret, dl >>

discVars == << urls, names, waited, ads, sinceNew >>
connVars == << gopros, ci, cstep >>
taskVars == << thr, tsk >>
invVars  == << listAcc, existingVideoList, newVideoList, distinctVideoList,
               manifest, closed >>
hostVars == << calls, hostErrors, started, ended >>
dlVars   == << attempts, given, function, fnCalls, ret, dl >>

\* what an HTTP command can do: answer ok, answer with an error status, raise
Outcomes == { "ok", "notok", "raise" }

\* a camera's media list before the plugin is constructed
InitialFiles == { <<1>> }

NoTasks == << >>

\* recordedFiles.txt has not been opened for writing
NoManifest == [ written |-> FALSE, sections |-> <<>> ]

\* self.existingVideoList = None
None == [ assigned |-> FALSE, list |-> <<>> ]

\* downloadFrom and attemptAsync are not running
DlIdle == [ pc |-> "off", id |-> <<"a">>, turboCmds |-> <<>>, video |-> "none",
            gpmf |-> "none" ]

\* ------------------------------------------------------------------ Init
\* __init__ up to asyncio.run(self.initGoPro()), and initGoPro up to the
\* first wait_for of getAllConnectedDevices
Init ==
    /\ pc = "discover"
    /\ calls = 0 /\ hostErrors = 0 /\ started = 0 /\ ended = 0
    /\ urls = <<>> /\ names = <<>> /\ waited = 0 /\ ads = 0 /\ sinceNew = 0
    /\ gopros = <<>> /\ ci = 0 /\ cstep = "open"
    /\ dev \in [ Devices -> [ rec : BOOLEAN, files : InitialFiles,
                              next : {2}, turbo : {FALSE} ] ]
    /\ deletes = 0
    /\ thr = NoTasks /\ tsk = NoTasks
    /\ listAcc = <<>>
    /\ existingVideoList = None
    /\ newVideoList = <<>> /\ distinctVideoList = <<>>
    /\ manifest = NoManifest
    /\ closed = {}
    /\ attempts = 0 /\ given = 0 /\ function = <<>> /\ fnCalls = <<>> /\ ret = "off"
    /\ dl = DlIdle

\* ------------------------------------------------------------- discovery
\* ZeroconfListener.add_service: the browser reports a service name
AddService(raw) ==
    /\ pc = "discover"
    /\ ads < MaxAds
    /\ urls' = Append(urls, raw)
    /\ ads' = ads + 1
    /\ sinceNew' = IF Split0(raw) \in Range(names) \cup { Split0(u) : u \in Range(urls) }
                   THEN sinceNew ELSE 0
    /\ UNCHANGED << pc, names, waited, connVars, dev, deletes, taskVars,
                    invVars, hostVars, dlVars >>

\* name = await wait_for(listener.urls.get(), 2); names.append(name.split('.')[0])
GetUrl ==
    /\ pc = "discover"
    /\ urls # <<>>
    /\ names' = Append(names, Split0(Head(urls)))
    /\ urls' = Tail(urls)
    /\ waited' = 0
    /\ UNCHANGED << pc, ads, sinceNew, connVars, dev, deletes, taskVars,
                    invVars, hostVars, dlVars >>

\* a second passes with the queue empty; at the second second wait_for raises
\* TimeoutError, the loop breaks, getAllConnectedDevices returns names (its
\* timer and listener are gone) and initGoPro starts its loop over them
Tick ==
    /\ pc = "discover"
    /\ urls = <<>>
    /\ IF waited + 1 >= Timeout
       THEN /\ pc' = "connect" /\ ci' = 1
            /\ waited' = 0 /\ sinceNew' = 0 /\ ads' = 0
       ELSE /\ waited' = waited + 1
            /\ sinceNew' = sinceNew + 1
            /\ UNCHANGED << pc, ci, ads >>
    /\ UNCHANGED << urls, names, gopros, cstep, dev, deletes, taskVars,
                    invVars, hostVars, dlVars >>

\* -------------------------------------------------------------- exceptions
\* an exception leaves initGoPro: asyncio.run re-raises it out of __init__ and
\* the host gets no plugin object
\* the locals of a call that returned or raised are gone: its tasks, its
\* comprehension and the lists of endSession
LocalsGone ==
    /\ thr' = NoTasks /\ tsk' = NoTasks
    /\ listAcc' = <<>> /\ newVideoList' = <<>> /\ distinctVideoList' = <<>>

ConstructorRaises ==
    /\ pc' = "failed"
    /\ hostErrors' = hostErrors + 1
    /\ LocalsGone

\* an exception leaves sessionStarted or sessionEnded: asyncio.run re-raises it
\* to the host, which still holds the plugin object
CallRaises ==
    /\ pc' = "idle"
    /\ hostErrors' = hostErrors + 1
    /\ LocalsGone

\* --------------------------------------------------------------- cameras
\* the camera's state after set_shutter(shutter) answered ok: stopping a
\* recording finalizes one new file
AfterShutter(d, shutter) ==
    IF shutter = "ENABLE"
    THEN [ d EXCEPT !.rec = TRUE ]
    ELSE IF d.rec
         THEN [ d EXCEPT !.rec = FALSE, !.files = Append(d.files, d.next),
                         !.next = d.next + 1 ]
         ELSE d

\* the sequence s without its i-th element
RemoveAt(s, i) == SubSeq(s, 1, i - 1) \o SubSeq(s, i + 1, Len(s))

\* the operator of a camera deletes one of its files while the plugin is
\* between two host calls
DeleteFile(id, i) ==
    /\ pc = "idle"
    /\ deletes < MaxDeletes
    /\ i \in DOMAIN dev[id].files
    /\ dev' = [ dev EXCEPT ![id].files = RemoveAt(dev[id].files, i) ]
    /\ deletes' = deletes + 1
    /\ UNCHANGED << pc, discVars, connVars, taskVars, invVars, hostVars, dlVars >>

\* ------------------------------------------------------------ connection
\* gopro = WiredGoPro(device); await gopro.open()
ConnectOpen(o) ==
    /\ pc = "connect" /\ ci <= Len(names) /\ cstep = "open"
    /\ IF o = "ok"
       THEN cstep' = "preset" /\ UNCHANGED << pc, hostErrors, taskVars, listAcc, newVideoList, distinctVideoList >>
       ELSE ConstructorRaises /\ UNCHANGED cstep
    /\ UNCHANGED << calls, started, ended, discVars, gopros, ci, dev, deletes,
                    existingVideoList, manifest, closed, dlVars >>

\* assert (await gopro.http_command.load_preset_group(...)).ok
ConnectPreset(o) ==
    /\ pc = "connect" /\ ci <= Len(names) /\ cstep = "preset"
    /\ IF o = "ok"
       THEN cstep' = "turbo" /\ UNCHANGED << pc, hostErrors, taskVars, listAcc, newVideoList, distinctVideoList >>
       ELSE ConstructorRaises /\ UNCHANGED cstep
    /\ UNCHANGED << calls, started, ended, discVars, gopros, ci, dev, deletes,
                    existingVideoList, manifest, closed, dlVars >>

\* await gopro.http_command.set_turbo_mode(mode=DISABLE): the answer is not looked at
ConnectTurbo(o) ==
    /\ pc = "connect" /\ ci <= Len(names) /\ cstep = "turbo"
    /\ IF o = "raise"
       THEN ConstructorRaises /\ UNCHANGED << cstep, dev >>
       ELSE /\ cstep' = "clock"
            /\ dev' = IF o = "ok" THEN [ dev EXCEPT ![names[ci]].turbo = FALSE ] ELSE dev
            /\ UNCHANGED << pc, hostErrors, taskVars, listAcc, newVideoList, distinctVideoList >>
    /\ UNCHANGED << calls, started, ended, discVars, gopros, ci, deletes,
                    existingVideoList, manifest, closed, dlVars >>

\* await gopro.http_command.set_date_time(...): the answer is not looked at;
\* then self.gopros.append(gopro) and the next device
ConnectClock(o) ==
    /\ pc = "connect" /\ ci <= Len(names) /\ cstep = "clock"
    /\ IF o = "raise"
       THEN ConstructorRaises /\ UNCHANGED << cstep, gopros, ci >>
       ELSE /\ gopros' = Append(gopros, names[ci])
            /\ ci' = ci + 1
            /\ cstep' = "open"
            /\ UNCHANGED << pc, hostErrors, taskVars, listAcc, newVideoList, distinctVideoList >>
    /\ UNCHANGED << calls, started, ended, discVars, dev, deletes,
                    existingVideoList, manifest, closed, dlVars >>

\* ---------------------------------------------------------------- fan-out
\* startCameras / stopCameras: one task per handle, each handing
\* asyncio.run(set_shutter(...)) to a worker thread
NewThreads == [ k \in 1..Len(gopros) |-> "queued" ]
NewTasks   == [ k \in 1..Len(gopros) |-> "pending" ]

FanPhases == { "init_stop", "start", "end_stop" }

\* the shutter argument of the fan-out in progress
Shutter == IF pc = "start" THEN "ENABLE" ELSE "DISABLE"

\* the for loop of initGoPro is over: await self.stopCameras()
InitStop ==
    /\ pc = "connect" /\ ci > Len(names)
    /\ pc' = "init_stop"
    /\ thr' = NewThreads /\ tsk' = NewTasks
    /\ UNCHANGED << discVars, connVars, dev, deletes, invVars, hostVars, dlVars >>

\* a worker thread starts its work item: the command goes out to the camera
ThreadIssue(k) ==
    /\ pc \in FanPhases
    /\ k \in DOMAIN thr /\ thr[k] = "queued"
    /\ thr' = [ thr EXCEPT ![k] = "inflight" ]
    /\ UNCHANGED << pc, discVars, connVars, dev, deletes, tsk, invVars,
                    hostVars, dlVars >>

\* the camera answers, or the command raises in the worker thread
ThreadComplete(k, o) ==
    /\ pc \in FanPhases
    /\ k \in DOMAIN thr /\ thr[k] = "inflight"
    /\ thr' = [ thr EXCEPT ![k] = IF o = "ok" THEN "ok" ELSE "err" ]
    /\ dev' = IF o = "ok"
              THEN [ dev EXCEPT ![gopros[k]] = AfterShutter(dev[gopros[k]], Shutter) ]
              ELSE dev
    /\ UNCHANGED << pc, discVars, connVars, deletes, tsk, invVars, hostVars, dlVars >>

\* TaskGroup._abort after a task failed: every task that is not done is
\* cancelled; a work item no thread has started is cancelled with it, one that
\* is running runs on
AbortOthers(t, k) ==
    [ j \in DOMAIN t |-> IF j = k THEN "failed"
                         ELSE IF t[j] = "pending" THEN "cancelled" ELSE t[j] ]

CancelQueued(h) ==
    [ j \in DOMAIN h |-> IF h[j] = "queued" THEN "cancelled" ELSE h[j] ]

\* the event loop sees a worker's result and finishes that task
TaskFinish(k) ==
    /\ pc \in FanPhases
    /\ k \in DOMAIN tsk /\ tsk[k] = "pending"
    /\ thr[k] \in { "ok", "err" }
    /\ IF thr[k] = "ok"
       THEN tsk' = [ tsk EXCEPT ![k] = "done" ] /\ UNCHANGED thr
       ELSE tsk' = AbortOthers(tsk, k) /\ thr' = CancelQueued(thr)
    /\ UNCHANGED << pc, discVars, connVars, dev, deletes, invVars, hostVars, dlVars >>

\* the TaskGroup block can be left: no task is pending. When a task failed
\* the block raises, and asyncio.run joins the worker threads on its way out.
GroupOver == \A k \in DOMAIN tsk : tsk[k] # "pending"
GroupFailed == \E k \in DOMAIN tsk : tsk[k] = "failed"
Joined == \A k \in DOMAIN thr : thr[k] # "inflight"

\* (mutation of InitStopExit: the defensive stopCameras is not awaited)
InitStopExitNoAwait ==
    /\ pc = "init_stop"
    /\ pc' = "init_list"
    /\ UNCHANGED << hostVars, discVars, connVars, dev, deletes, taskVars,
                    invVars, dlVars >>

\* initGoPro: stopCameras returned; the pre-session comprehension starts
InitStopExit ==
    /\ pc = "init_stop" /\ GroupOver /\ Joined
    /\ IF GroupFailed
       THEN ConstructorRaises
       ELSE pc' = "init_list" /\ UNCHANGED << hostErrors, taskVars, listAcc, newVideoList, distinctVideoList >>
    /\ UNCHANGED << calls, started, ended, discVars, connVars, dev, deletes,
                    existingVideoList, manifest, closed, dlVars >>

\* sessionStarted: asyncio.run(self.startCameras()) returns or raises
StartExit ==
    /\ pc = "start" /\ GroupOver /\ Joined
    /\ IF GroupFailed
       THEN CallRaises /\ UNCHANGED started
       ELSE /\ pc' = "idle" /\ started' = started + 1
            /\ LocalsGone /\ UNCHANGED hostErrors
    /\ UNCHANGED << calls, ended, discVars, connVars, dev, deletes,
                    existingVideoList, manifest, closed, dlVars >>

\* (mutation of EndStopExit: stopCameras is not awaited)
EndStopExitNoAwait ==
    /\ pc = "end_stop"
    /\ pc' = "end_list"
    /\ UNCHANGED << hostVars, discVars, connVars, dev, deletes, taskVars,
                    invVars, dlVars >>

\* endSession: await self.stopCameras() returned, or raised out of sessionEnded
EndStopExit ==
    /\ pc = "end_stop" /\ GroupOver /\ Joined
    /\ IF GroupFailed
       THEN CallRaises
       ELSE pc' = "end_list" /\ UNCHANGED << hostErrors, taskVars, listAcc, newVideoList, distinctVideoList >>
    /\ UNCHANGED << calls, started, ended, discVars, connVars, dev, deletes,
                    existingVideoList, manifest, closed, dlVars >>

\* ------------------------------------------------------------ inventories
\* one element of [(gp, [file.filename for file in
\* (await gp.http_command.get_media_list()).data.files]) for gp in self.gopros]
Entry(k) == [ gp |-> k, id |-> gopros[k], files |-> dev[gopros[k]].files ]

\* the comprehension asks the next handle for its media list
ListStep(o) ==
    /\ pc \in { "init_list", "end_list" }
    /\ Len(listAcc) < Len(gopros)
    /\ IF o = "ok"
       THEN /\ listAcc' = Append(listAcc, Entry(Len(listAcc) + 1))
            /\ UNCHANGED << pc, hostErrors, taskVars, newVideoList, distinctVideoList >>
       ELSE IF pc = "init_list" THEN ConstructorRaises ELSE CallRaises
    /\ UNCHANGED << calls, started, ended, discVars, connVars, dev, deletes,
                    existingVideoList, manifest, closed, dlVars >>

\* (mutation of InitListDone: the comprehension stops after the first handle)
InitListDoneEarly ==
    /\ pc = "init_list" /\ Len(listAcc) >= 1
    /\ existingVideoList' = [ assigned |-> TRUE, list |-> listAcc ]
    /\ pc' = "idle"
    /\ LocalsGone
    /\ UNCHANGED << discVars, connVars, dev, deletes, manifest, closed,
                    hostVars, dlVars >>

\* self.existingVideoList = [...]: initGoPro and __init__ return
InitListDone ==
    /\ pc = "init_list" /\ Len(listAcc) = Len(gopros)
    /\ existingVideoList' = [ assigned |-> TRUE, list |-> listAcc ]
    /\ pc' = "idle"
    /\ LocalsGone
    /\ UNCHANGED << discVars, connVars, dev, deletes, manifest, closed,
                    hostVars, dlVars >>

\* newVideoList = [...]
EndListDone ==
    /\ pc = "end_list" /\ Len(listAcc) = Len(gopros)
    /\ newVideoList' = listAcc
    /\ listAcc' = <<>>
    /\ pc' = "end_diff"
    /\ UNCHANGED << discVars, connVars, dev, deletes, taskVars,
                    existingVideoList, distinctVideoList, manifest, closed,
                    hostVars, dlVars >>

\* ------------------------------------------------------------- host calls
\* def sessionStarted(self): asyncio.run(self.startCameras())
SessionStarted ==
    /\ pc = "idle" /\ calls < MaxCalls
    /\ calls' = calls + 1
    /\ pc' = "start"
    /\ thr' = NewThreads /\ tsk' = NewTasks
    /\ UNCHANGED << hostErrors, started, ended, discVars, connVars, dev,
                    deletes, invVars, dlVars >>

\* def sessionEnded(self): asyncio.run(self.endSession()), up to stopCameras
SessionEnded ==
    /\ pc = "idle" /\ calls < MaxCalls
    /\ calls' = calls + 1
    /\ pc' = "end_stop"
    /\ thr' = NewThreads /\ tsk' = NewTasks
    /\ UNCHANGED << hostErrors, started, ended, discVars, connVars, dev,
                    deletes, invVars, dlVars >>

\* ------------------------------------------------------------------- diff
\* [files for (gp2, files) in self.existingVideoList if gp2.identifier == gp.identifier]
Matching(existing, id) ==
    SelectSeq(existing, LAMBDA e : e.id = id)

\* (mutation of NewFiles: the symmetric difference, deleted files listed too)
NewFilesSymmetric(files, oldFileList) ==
    SelectSeq(files, LAMBDA f : f \notin Range(oldFileList))
      \o SelectSeq(oldFileList, LAMBDA f : f \notin Range(files))

\* [file for file in files if file not in oldFileList]
NewFiles(files, oldFileList) ==
    SelectSeq(files, LAMBDA f : f \notin Range(oldFileList))

\* the loop over newVideoList; [0] raises IndexError on an empty list (and a
\* list that was never assigned cannot be iterated)
DiffRaises(existing, new) ==
    \E k \in DOMAIN new : Matching(existing, new[k].id) = <<>>

DistinctVideoList(existing, new) ==
    [ k \in DOMAIN new |->
        [ gp |-> new[k].gp, id |-> new[k].id,
          files |-> NewFiles(new[k].files, Matching(existing, new[k].id)[1].files) ] ]

\* endSession: the loop that fills distinctVideoList
Diff ==
    /\ pc = "end_diff"
    /\ IF DiffRaises(existingVideoList.list, newVideoList)
       THEN CallRaises
       ELSE /\ distinctVideoList' = DistinctVideoList(existingVideoList.list, newVideoList)
            /\ pc' = "end_write"
            /\ UNCHANGED << hostErrors, taskVars, listAcc, newVideoList >>
    /\ UNCHANGED << calls, started, ended, discVars, connVars, dev, deletes,
                    existingVideoList, manifest, closed, dlVars >>

\* fileList = open(.../recordedFiles.txt, mode="w"), then for each pair the
\* line "<identifier>:" and one line "\t<file>" per file
Sections(distinct) ==
    [ k \in DOMAIN distinct |-> << distinct[k].id, distinct[k].files >> ]

\* (mutation of WriteManifest: the file is only opened when there is a section to write)
WriteManifestIfAny ==
    /\ pc = "end_write"
    /\ manifest' = IF distinctVideoList = <<>> THEN manifest
                   ELSE [ written |-> TRUE, sections |-> Sections(distinctVideoList) ]
    /\ pc' = "end_close"
    /\ ci' = 1
    /\ UNCHANGED << discVars, gopros, cstep, dev, deletes, taskVars, listAcc,
                    existingVideoList, newVideoList, distinctVideoList,
                    closed, hostVars, dlVars >>

WriteManifest ==
    /\ pc = "end_write"
    /\ manifest' = [ written |-> TRUE, sections |-> Sections(distinctVideoList) ]
    /\ pc' = "end_close"
    /\ ci' = 1
    /\ UNCHANGED << discVars, gopros, cstep, dev, deletes, taskVars, listAcc,
                    existingVideoList, newVideoList, distinctVideoList,
                    closed, hostVars, dlVars >>

\* for gopro in self.gopros: await gopro.close()
CloseStep(o) ==
    /\ pc = "end_close"
    /\ ci <= Len(gopros)
    /\ IF o = "ok"
       THEN /\ closed' = closed \cup { ci }
            /\ ci' = ci + 1
            /\ UNCHANGED << pc, hostErrors, taskVars, listAcc, newVideoList, distinctVideoList >>
       ELSE CallRaises /\ UNCHANGED << closed, ci >>
    /\ UNCHANGED << calls, started, ended, discVars, gopros, cstep, dev, deletes,
                    existingVideoList, manifest, dlVars >>

\* (mutation of EndDone: the list of handles is emptied once they are closed)
EndDoneClears ==
    /\ pc = "end_close"
    /\ ci > Len(gopros)
    /\ pc' = "idle"
    /\ ended' = ended + 1
    /\ gopros' = <<>>
    /\ LocalsGone
    /\ UNCHANGED << calls, hostErrors, started, discVars, ci, cstep, dev,
                    deletes, existingVideoList, manifest, closed, dlVars >>

\* endSession and sessionEnded return
EndDone ==
    /\ pc = "end_close"
    /\ ci > Len(gopros)
    /\ pc' = "idle"
    /\ ended' = ended + 1
    /\ LocalsGone
    /\ UNCHANGED << calls, hostErrors, started, discVars, connVars, dev,
                    deletes, existingVideoList, manifest, closed, dlVars >>

\* -------------------------------------------------------------- lifecycle
Next ==
    \/ \E raw \in RawNames : AddService(raw)
    \/ GetUrl
    \/ Tick
    \/ \E o \in { "ok", "raise" } : ConnectOpen(o)
    \/ \E o \in Outcomes : ConnectPreset(o)
    \/ \E o \in Outcomes : ConnectTurbo(o)
    \/ \E o \in Outcomes : ConnectClock(o)
    \/ InitStop
    \/ \E k \in 1..Len(gopros) : ThreadIssue(k)
    \/ \E k \in 1..Len(gopros), o \in { "ok", "raise" } : ThreadComplete(k, o)
    \/ \E k \in 1..Len(gopros) : TaskFinish(k)
    \/ InitStopExit
    \/ \E o \in { "ok", "raise" } : ListStep(o)
    \/ InitListDone
    \/ SessionStarted
    \/ StartExit
    \/ SessionEnded
    \/ EndStopExit
    \/ EndListDone
    \/ Diff
    \/ WriteManifest
    \/ \E o \in { "ok", "raise" } : CloseStep(o)
    \/ EndDone
    \/ \E id \in Devices, i \in 1..3 : DeleteFile(id, i)

Spec == Init /\ [][Next]_vars

\* ------------------------------------------------------ the diff on its own
\* inventories: media lists without repeated filenames
Inventories ==
    { s \in UNION { [ 1..n -> Filenames ] : n \in 0..MaxInv } :
        \A i, j \in DOMAIN s : i # j => s[i] # s[j] }

\* handle lists endSession may find: one camera, two cameras, one camera twice
HandleLists == { << <<"a">> >>, << <<"a">>, <<"b">> >>, << <<"a">>, <<"a">> >> }

ListOf(handles, inv) ==
    [ k \in DOMAIN handles |-> [ gp |-> k, id |-> handles[k], files |-> inv[handles[k]] ] ]

\* endSession with newVideoList read: any pre- and post-session inventory per camera
InitDiff ==
    /\ pc = "end_diff"
    /\ calls = 1 /\ hostErrors = 0 /\ started = 1 /\ ended = 0
    /\ urls = <<>> /\ names = <<>> /\ waited = 0 /\ ads = 0 /\ sinceNew = 0
    /\ gopros \in HandleLists /\ ci = Len(gopros) + 1 /\ cstep = "open"
    /\ dev = [ id \in Devices |-> [ rec |-> FALSE, files |-> <<>>, next |-> 1, turbo |-> FALSE ] ]
    /\ deletes = 0
    /\ thr = [ k \in DOMAIN gopros |-> "ok" ]
    /\ tsk = [ k \in DOMAIN gopros |-> "done" ]
    /\ listAcc = <<>>
    /\ \E pre \in [ Devices -> Inventories ] :
           existingVideoList = [ assigned |-> TRUE, list |-> ListOf(gopros, pre) ]
    /\ \E post \in [ Devices -> Inventories ] : newVideoList = ListOf(gopros, post)
    /\ distinctVideoList = <<>>
    /\ manifest = NoManifest
    /\ closed = {}
    /\ attempts = 0 /\ given = 0 /\ function = <<>> /\ fnCalls = <<>> /\ ret = "off"
    /\ dl = DlIdle

NextDiff ==
    \/ Diff
    \/ WriteManifest
    \/ \E o \in { "ok", "raise" } : CloseStep(o)
    \/ EndDone

SpecDiff == InitDiff /\ [][NextDiff]_vars

\* ------------------------------------------------------------ attemptAsync
\* (mutation of AttemptStep: a success does not return, the loop goes on)
AttemptStepNoReturn ==
    /\ ret = "running"
    /\ attempts > 0
    /\ fnCalls' = Append(fnCalls, function[Len(fnCalls) + 1])
    /\ attempts' = attempts - 1
    /\ UNCHANGED << pc, discVars, connVars, dev, deletes, taskVars, invVars,
                    hostVars, given, function, ret, dl >>

\* while attempts > 0: try: await function(); return True
\*                     except: attempts = attempts - 1
AttemptStep ==
    /\ ret = "running"
    /\ attempts > 0
    /\ LET o == function[Len(fnCalls) + 1] IN
        /\ fnCalls' = Append(fnCalls, o)
        /\ IF o = "ok"
           THEN ret' = "True" /\ UNCHANGED attempts
           ELSE attempts' = attempts - 1 /\ UNCHANGED ret
    /\ UNCHANGED << pc, discVars, connVars, dev, deletes, taskVars, invVars,
                    hostVars, given, function, dl >>

\* the loop condition fails: return False
AttemptExhausted ==
    /\ ret = "running"
    /\ attempts <= 0
    /\ ret' = "False"
    /\ UNCHANGED << pc, discVars, connVars, dev, deletes, taskVars, invVars,
                    hostVars, attempts, given, function, fnCalls, dl >>

\* attemptAsync(function, attempts) is entered with any delegate and any count
InitAttempt ==
    /\ pc = "idle"
    /\ calls = 0 /\ hostErrors = 0 /\ started = 0 /\ ended = 0
    /\ urls = <<>> /\ names = <<>> /\ waited = 0 /\ ads = 0 /\ sinceNew = 0
    /\ gopros = <<>> /\ ci = 1 /\ cstep = "open"
    /\ dev = [ id \in Devices |-> [ rec |-> FALSE, files |-> <<>>, next |-> 1, turbo |-> FALSE ] ]
    /\ deletes = 0
    /\ thr = NoTasks /\ tsk = NoTasks
    /\ listAcc = <<>>
    /\ existingVideoList = None
    /\ newVideoList = <<>> /\ distinctVideoList = <<>>
    /\ manifest = NoManifest
    /\ closed = {}
    /\ given \in 0..MaxAttempts
    /\ attempts = given
    /\ function \in [ 1..(MaxAttempts + 1) -> { "ok", "raise" } ]
    /\ fnCalls = <<>>
    /\ ret = "running"
    /\ dl = DlIdle

NextAttempt ==
    \/ AttemptStep
    \/ AttemptExhausted

\* the event loop runs the coroutine whenever it can take a step
SpecAttempt == InitAttempt /\ [][NextAttempt]_vars /\ WF_vars(NextAttempt)

\* ------------------------------------------------------------ downloadFrom
\* a delegate of downloadFrom, as the outcome of each call attemptAsync can make
Delegates == [ 1..DefaultAttempts -> { "ok", "raise" } ]

\* await EDMOPythonPlugin.attemptAsync(delegate): attempts takes its default
CallAttempt(f) ==
    /\ function' = f
    /\ given' = DefaultAttempts
    /\ attempts' = DefaultAttempts
    /\ fnCalls' = <<>>
    /\ ret' = "running"

\* the camera after set_turbo_mode(mode) with outcome o: only an ok answer
\* changes the mode
AfterTurbo(d, mode, o) ==
    IF o = "ok" THEN [ d EXCEPT !.turbo = (mode = "ENABLE") ] ELSE d

\* await gopro.http_command.set_turbo_mode(mode=ENABLE); the answer is not
\* looked at; then the video delegate goes to attemptAsync
DlTurboOn(o) ==
    /\ dl.pc = "turbo_on"
    /\ dev' = [ dev EXCEPT ![dl.id] = AfterTurbo(dev[dl.id], "ENABLE", o) ]
    /\ IF o = "raise"
       THEN /\ dl' = [ dl EXCEPT !.pc = "raised",
                                 !.turboCmds = Append(@, << "ENABLE", o >>) ]
            /\ UNCHANGED << attempts, given, function, fnCalls, ret >>
       ELSE /\ dl' = [ dl EXCEPT !.pc = "video",
                                 !.turboCmds = Append(@, << "ENABLE", o >>) ]
            /\ \E f \in Delegates : CallAttempt(f)
    /\ UNCHANGED << pc, discVars, connVars, deletes, taskVars, invVars, hostVars >>

\* (mutation of DlVideoDone: a failed video download does not return)
DlVideoDoneNoBail ==
    /\ dl.pc = "video"
    /\ ret \in { "True", "False" }
    /\ dl' = [ dl EXCEPT !.pc = "gpmf", !.video = ret ]
    /\ \E f \in Delegates : CallAttempt(f)
    /\ UNCHANGED << pc, discVars, connVars, dev, deletes, taskVars, invVars, hostVars >>

\* if not await attemptAsync(videoDownloadDelegate): print, turbo off, return;
\* otherwise the GPMF delegate goes to attemptAsync
DlVideoDone ==
    /\ dl.pc = "video"
    /\ ret \in { "True", "False" }
    /\ IF ret = "False"
       THEN /\ dl' = [ dl EXCEPT !.pc = "turbo_off", !.video = ret ]
            /\ UNCHANGED << attempts, given, function, fnCalls, ret >>
       ELSE /\ dl' = [ dl EXCEPT !.pc = "gpmf", !.video = ret ]
            /\ \E f \in Delegates : CallAttempt(f)
    /\ UNCHANGED << pc, discVars, connVars, dev, deletes, taskVars, invVars, hostVars >>

\* if not await attemptAsync(gpmfDownloadDelegate): print
DlGpmfDone ==
    /\ dl.pc = "gpmf"
    /\ ret \in { "True", "False" }
    /\ dl' = [ dl EXCEPT !.pc = "turbo_off", !.gpmf = ret ]
    /\ UNCHANGED << pc, discVars, connVars, dev, deletes, taskVars, invVars,
                    hostVars, attempts, given, function, fnCalls, ret >>

\* await gopro.http_command.set_turbo_mode(mode=DISABLE) (line 153 or 163);
\* the answer is not looked at; downloadFrom returns
DlTurboOff(o) ==
    /\ dl.pc = "turbo_off"
    /\ dev' = [ dev EXCEPT ![dl.id] = AfterTurbo(dev[dl.id], "DISABLE", o) ]
    /\ dl' = [ dl EXCEPT !.pc = IF o = "raise" THEN "raised" ELSE "done",
                         !.turboCmds = Append(@, << "DISABLE", o >>) ]
    /\ UNCHANGED << pc, discVars, connVars, deletes, taskVars, invVars,
                    hostVars, attempts, given, function, fnCalls, ret >>

\* downloadFrom(gopro, videoPath) is entered for either camera, after arming
InitDownload ==
    /\ pc = "idle"
    /\ calls = 0 /\ hostErrors = 0 /\ started = 0 /\ ended = 0
    /\ urls = <<>> /\ names = <<>> /\ waited = 0 /\ ads = 0 /\ sinceNew = 0
    /\ gopros = <<>> /\ ci = 1 /\ cstep = "open"
    /\ dev \in [ Devices -> [ rec : { FALSE }, files : InitialFiles,
                              next : { 2 }, turbo : BOOLEAN ] ]
    /\ deletes = 0
    /\ thr = NoTasks /\ tsk = NoTasks
    /\ listAcc = <<>>
    /\ existingVideoList = None
    /\ newVideoList = <<>> /\ distinctVideoList = <<>>
    /\ manifest = NoManifest
    /\ closed = {}
    /\ attempts = 0 /\ given = 0 /\ function = <<>> /\ fnCalls = <<>> /\ ret = "off"
    /\ \E id \in Devices : dl = [ DlIdle EXCEPT !.pc = "turbo_on", !.id = id ]

NextDownload ==
    \/ \E o \in Outcomes : DlTurboOn(o)
    \/ AttemptStep
    \/ AttemptExhausted
    \/ DlVideoDone
    \/ DlGpmfDone
    \/ \E o \in Outcomes : DlTurboOff(o)

SpecDownload == InitDownload /\ [][NextDownload]_vars

\* ================================================================ claims

EndPhases == { "end_stop", "end_list", "end_diff", "end_write", "end_close" }

\* C1: whenever endSession has asked any handle for its post-session media
\* list, the shutter-disable command of every handle has completed (its
\* worker thread returned and its task is done), whatever the order in which
\* the stop tasks ran.
StopBeforeInventory ==
    ( (pc = "end_list" /\ listAcc # <<>>) \/ pc \in { "end_diff", "end_write", "end_close" } )
        => /\ DOMAIN thr = DOMAIN gopros
           /\ \A k \in DOMAIN gopros : thr[k] = "ok" /\ tsk[k] = "done"

\* two different cameras were stopped and the first post-session list was read
StopBeforeInventoryWitness ==
    /\ pc = "end_list" /\ Len(listAcc) = 1
    /\ Len(gopros) = 2 /\ gopros[1] # gopros[2]

\* C2: whenever a shutter-enable command has gone out to any handle, the
\* pre-session inventory is assigned and holds a snapshot of every connected
\* handle.
InventoryBeforeEnable ==
    ( pc = "start" /\ \E k \in DOMAIN thr : thr[k] \in { "inflight", "ok", "err" } )
        => /\ existingVideoList.assigned
           /\ \A j \in DOMAIN gopros :
                \E i \in DOMAIN existingVideoList.list :
                    /\ existingVideoList.list[i].gp = j
                    /\ existingVideoList.list[i].id = gopros[j]

\* the first of two cameras got its shutter-enable, the second not yet
InventoryBeforeEnableWitness ==
    /\ pc = "start" /\ Len(gopros) = 2 /\ gopros[1] # gopros[2]
    /\ thr[1] = "inflight" /\ thr[2] = "queued"

\* the positions of post whose file the pre-session inventory lacks
Kept(pre, post) == { i \in DOMAIN post : \A j \in DOMAIN pre : pre[j] # post[i] }

\* the pre-session inventory of the camera a handle belongs to
PreOf(id) ==
    (CHOOSE e \in Range(existingVideoList.list) : e.id = id).files

\* C3: once the diff is computed, the list of new files of every handle is
\* the files of its post-session inventory that its pre-session inventory
\* lacks, each once, in the post-session order; a file that was there before
\* and is gone afterwards is not listed.
DiffIsSetDifference ==
    pc \in { "end_write", "end_close" } =>
        /\ DOMAIN distinctVideoList = DOMAIN newVideoList
        /\ \A k \in DOMAIN newVideoList :
            LET post == newVideoList[k].files
                pre  == PreOf(newVideoList[k].id)
                out  == distinctVideoList[k].files
                keep == Kept(pre, post)
            IN  /\ distinctVideoList[k].id = newVideoList[k].id
                /\ Len(out) = Cardinality(keep)
                /\ \A i \in keep :
                      out[Cardinality({ m \in keep : m <= i })] = post[i]
                /\ \A f \in Range(pre) \ Range(post) : f \notin Range(out)

\* a camera kept one file, lost one it had before, and gained one
DiffIsSetDifferenceWitness ==
    /\ pc = "end_write"
    /\ \E k \in DOMAIN newVideoList :
        /\ Range(PreOf(newVideoList[k].id)) \ Range(newVideoList[k].files) # {}
        /\ Range(PreOf(newVideoList[k].id)) \cap Range(newVideoList[k].files) # {}
        /\ Len(distinctVideoList[k].files) = 1

\* the first call of the delegate that succeeds among the first n, or 0
FirstOk(n) ==
    IF \E i \in 1..n : function[i] = "ok"
    THEN CHOOSE i \in 1..n : function[i] = "ok" /\ \A j \in 1..(i - 1) : function[j] # "ok"
    ELSE 0

AttemptSafe ==
    /\ Len(fnCalls) <= given
    /\ \A i \in DOMAIN fnCalls : fnCalls[i] = function[i]
    /\ \A i \in 1..(Len(fnCalls) - 1) : fnCalls[i] = "raise"
    /\ ret = "True"  => FirstOk(given) > 0 /\ Len(fnCalls) = FirstOk(given)
    /\ ret = "False" => FirstOk(given) = 0 /\ Len(fnCalls) = given

\* C4: attemptAsync calls the delegate at most n times and never after a call
\* that succeeded; it returns True exactly when one of the first n calls
\* succeeds, after that call; it returns False after exactly n calls when all
\* of them fail; and it always returns.
AttemptBounded == [] AttemptSafe /\ <> (ret \in { "True", "False" })

\* three attempts, the delegate succeeds on its second call
AttemptBoundedWitness ==
    /\ given = DefaultAttempts /\ ret = "True"
    /\ fnCalls = << "raise", "ok" >>

\* C5: what getAllConnectedDevices returns holds every advertised identifier
\* exactly once.
DiscoveryDedupes ==
    pc # "discover" => Cardinality(Range(names)) = Len(names)

\* C6: discovery has returned once a full timeout has passed without a new
\* identifier, repeated advertisements of known identifiers notwithstanding.
DiscoveryQuiescence ==
    pc = "discover" => sinceNew < Timeout

\* C7: a shutter-enable that raises leaves the sibling commands issued and
\* completed, reaches the host as no error, and the session is recording.
FanOutIsolation ==
    [][ (pc = "start" /\ pc' = "idle")
          => /\ \A k \in DOMAIN thr : thr[k] \in { "ok", "err" }
             /\ hostErrors' = hostErrors
             /\ started' = started + 1 ]_vars

\* C8: a device whose open or preset selection fails is dropped; arming goes
\* on with the next device and no error reaches the host.
ConnectFailureDropsDevice ==
    [][ (pc = "connect" /\ ci <= Len(names) /\ cstep \in { "open", "preset" })
          => /\ pc' = "connect"
             /\ hostErrors' = hostErrors ]_vars

\* C9: whatever set_date_time does, the device is added to the connected
\* devices and arming goes on.
ClockFailureKeepsDevice ==
    [][ (pc = "connect" /\ ci <= Len(names) /\ cstep = "clock")
          => /\ gopros' = Append(gopros, names[ci])
             /\ pc' = "connect" ]_vars

\* C10: the end sequence runs only after a sessionStarted that succeeded, and
\* once a session has ended the plugin sends no command, reads no inventory
\* and writes no manifest.
StateMachineOrder ==
    /\ pc \in EndPhases => started > 0
    /\ ended > 0 => pc = "idle"

\* C11: no two commands are in flight on one camera at the same time: two
\* worker threads whose commands are out address different identifiers.
OneCommandPerDevice ==
    \A j, k \in DOMAIN thr :
        (j # k /\ thr[j] = "inflight" /\ thr[k] = "inflight") => gopros[j] # gopros[k]

\* C12: once arming has finished, the connected handles name each identifier
\* at most once and the pre-session inventory holds exactly one snapshot for
\* each of them.
OneSnapshotPerDevice ==
    (pc = "idle" /\ existingVideoList.assigned) =>
        /\ \A j, k \in DOMAIN gopros : j # k => gopros[j] # gopros[k]
        /\ \A id \in Range(gopros) :
              Cardinality({ i \in DOMAIN existingVideoList.list :
                              existingVideoList.list[i].id = id }) = 1

\* C13: when discovery returned no name, arming raises nothing, no handle
\* exists, no shutter task, media listing or close is ever made, every call of
\* sessionStarted and sessionEnded returns normally, and once sessionEnded
\* has got to its close loop the manifest file exists and has no section.
ZeroDeviceSession ==
    (pc # "discover" /\ names = <<>>) =>
        /\ pc # "failed" /\ hostErrors = 0
        /\ gopros = <<>> /\ thr = <<>> /\ tsk = <<>>
        /\ listAcc = <<>> /\ closed = {}
        /\ started + ended = (IF pc \in { "idle", "connect", "init_stop", "init_list" }
                              THEN calls ELSE calls - 1)
        /\ (pc = "end_close" \/ ended > 0) =>
              manifest = [ written |-> TRUE, sections |-> <<>> ]

\* no camera was found; sessionStarted and sessionEnded have both returned
ZeroDeviceSessionWitness ==
    /\ names = <<>> /\ pc = "idle"
    /\ started = 1 /\ ended = 1

\* C14: during arming a defensive shutter-disable task exists only once every
\* discovered name has its handle in self.gopros, one task per handle; and
\* whenever a pre-session media list has been read (and when arming is
\* about to return), the shutter-disable of every handle has completed.
DefensiveStopOrder ==
    /\ (pc \in { "connect", "discover" }) => thr = <<>>
    /\ (pc \in { "init_stop", "init_list" }) =>
          /\ Len(gopros) = Len(names)
          /\ DOMAIN thr = DOMAIN gopros
    /\ (pc = "init_list" /\ listAcc # <<>>) =>
          \A k \in DOMAIN gopros : thr[k] = "ok" /\ tsk[k] = "done"

\* two cameras connected and stopped, the first pre-session list read
DefensiveStopOrderWitness ==
    /\ pc = "init_list" /\ Len(listAcc) = 1
    /\ Len(gopros) = 2 /\ gopros[1] # gopros[2]

\* C15: whenever sessionEnded comes back to the host, with or without an
\* exception, close() has returned on every handle.
HandlesClosedAtEnd ==
    [][ (pc \in EndPhases /\ pc' = "idle") => closed' = DOMAIN gopros ]_vars

\* C16: whenever sessionEnded comes back to the host, with or without an
\* exception, the manifest has been written; and no handle is closed before
\* it is written.
ManifestAlwaysWritten ==
    [][ /\ (pc \in EndPhases /\ pc' = "idle") => manifest'.written
        /\ closed' # closed => manifest.written ]_vars

\* a device is inside its connect sequence (opened, not yet appended) and
\* another discovered device has not begun its own
MidConnect == pc = "connect" /\ ci < Len(names) /\ cstep # "open"

\* C17: connections overlap: while one device is inside its connect sequence,
\* the open() of a device that waits can begin.
ConnectsOverlap ==
    MidConnect => ENABLED (\E o \in { "ok", "raise" } : ConnectOpen(o))

\* what the loop of initGoPro does instead (C17): while one device is inside
\* its connect sequence no other open() can begin, and the device in turn is
\* always the one after the handles appended so far.
ConnectsInSequence ==
    /\ MidConnect => ~ ENABLED (\E o \in { "ok", "raise" } : ConnectOpen(o))
    /\ (pc = "connect" /\ ci <= Len(names)) => Len(gopros) = ci - 1

\* C18: self.gopros changes only in the connect loop of arming, never in
\* sessionStarted or sessionEnded; and when endSession computes the diff,
\* every handle of the post-session inventory has a pre-session entry with
\* its identifier, so the lookup [0] does not fail.
DeviceSetFrame ==
    /\ [][ gopros' # gopros => (pc = "connect" /\ pc' = "connect") ]_vars
    /\ [] ( pc = "end_diff" =>
              /\ Len(newVideoList) = Len(gopros)
              /\ \A k \in DOMAIN newVideoList :
                    \E i \in DOMAIN existingVideoList.list :
                        existingVideoList.list[i].id = newVideoList[k].id
              /\ ~ DiffRaises(existingVideoList.list, newVideoList) )

\* sessionStarted returned, then sessionEnded got to its diff with two cameras
DeviceSetFrameWitness ==
    /\ pc = "end_diff" /\ started = 1
    /\ Len(gopros) = 2 /\ gopros[1] # gopros[2]

\* calls of the GPMF delegate made so far
GpmfCalls == IF dl.pc = "gpmf" THEN Len(fnCalls)
             ELSE IF dl.gpmf # "none" THEN Len(fnCalls) ELSE 0

\* C19: downloadFrom calls the GPMF delegate only after attemptAsync returned
\* True for the video, and then it always does; when every video attempt
\* failed no GPMF call is made and downloadFrom goes on to its turbo-disable:
\* only a set_turbo_mode that raises makes downloadFrom raise.
MetadataIffVideo ==
    /\ (GpmfCalls > 0 \/ dl.pc = "gpmf" \/ dl.gpmf # "none") => dl.video = "True"
    /\ (dl.video = "True" /\ dl.pc \in { "turbo_off", "done" }) =>
          dl.gpmf # "none" /\ GpmfCalls >= 1
    /\ dl.video = "False" =>
          /\ GpmfCalls = 0 /\ dl.gpmf = "none"
          /\ Len(fnCalls) = DefaultAttempts
          /\ \A i \in DOMAIN fnCalls : fnCalls[i] = "raise"
    /\ dl.pc = "raised" => dl.turboCmds[Len(dl.turboCmds)][2] = "raise"

\* all three video attempts failed and downloadFrom returned
MetadataIffVideoWitness ==
    /\ dl.pc = "done" /\ dl.video = "False"
    /\ fnCalls = << "raise", "raise", "raise" >>

\* what downloadFrom does keep (C20): the first command is turbo-enable, sent
\* before any call of a delegate, and whatever the downloads did the last
\* command before it returns is turbo-disable.
TurboCommandOrder ==
    /\ (dl.pc \in { "video", "gpmf", "turbo_off" }) => dl.turboCmds[1][1] = "ENABLE"
    /\ dl.pc = "done" =>
          /\ Len(dl.turboCmds) = 2
          /\ dl.turboCmds[1][1] = "ENABLE" /\ dl.turboCmds[2][1] = "DISABLE"

\* C20: downloadFrom sends turbo-enable before the first download attempt and
\* turbo-disable as its last command for every outcome of the downloads, and
\* turbo mode is off on the camera whenever downloadFrom has returned; it is
\* off on every connected camera when arming has completed.
TurboOffOnReturn ==
    /\ TurboCommandOrder
    /\ dl.pc = "done" => ~ dev[dl.id].turbo
    /\ (pc = "idle" /\ existingVideoList.assigned) =>
          \A k \in DOMAIN gopros : ~ dev[gopros[k]].turbo

====
